---- MODULE Spec2Model ----
(***************************************************************************)
(* Model of snakemake_monitoring_plugin_wms.MonitoringProvider: the        *)
(* start-up handshake with the wms server (service_info, create_workflow)  *)
(* and the per-event log_handler, with the HTTP responses as inputs.       *)
(*                                                                         *)
(* Python values that may be of several types are tagged records           *)
(* [type, cls, text], text being the value's str() form as a sequence of   *)
(* string pieces.  Formatted strings (urls, diagnostics) are sequences of  *)
(* string pieces.  A dict is its key/value pairs in insertion order.       *)
(***************************************************************************)
EXTENDS Integers, Sequences, FiniteSets, TLC

VARIABLES
    settings,     \* MonitoringProviderSettings: host, workflow_name
    token,        \* self.token
    address,      \* self.address
    args,         \* self.args
    metadata,     \* self.metadata
    server,       \* self.server (Unset until create_workflow assigns it)
    pc,           \* where the process is
    exit_status,  \* the process's exit status once pc = "exited"
    exc,          \* the uncaught exception once pc = "raised"
    requests,     \* the HTTP requests issued so far, in order
    responses,    \* the response received to each request
    checked,      \* the calls of check_response so far, in order
    stderr,       \* what was written to sys.stderr, one entry per write
    nlog,         \* the number of log_handler invocations so far
    events,       \* the log events handed to _parse_message so far, in order
    parsed        \* what _parse_message returned for each of them

vars == <<settings, token, address, args, metadata, server, pc, exit_status,
          exc, requests, responses, checked, stderr, nlog, events, parsed>>

----------------------------------------------------------------------------
(* Bounds *)

\* the number of log events the host engine emits
MaxEvents == 2

\* the number of key/value pairs of a log event given to _parse_message alone
MaxKeys == 2

----------------------------------------------------------------------------
(* Python values *)

PyNone == [type |-> "NoneType", cls |-> "NoneType", text |-> <<"None">>]

PyStr(pieces) == [type |-> "str", cls |-> "str", text |-> pieces]

PyInt(digits) == [type |-> "int", cls |-> "int", text |-> <<digits>>]

\* an exception object of class c whose str() is the pieces m
PyExc(c, m) == [type |-> "exception", cls |-> c, text |-> m]

\* a job handle whose str() is the pieces name
PyJob(name) == [type |-> "object", cls |-> "Job", text |-> name]

\* a dict: its <<key, value>> pairs in insertion order, keys distinct
PyDict(items) == [type |-> "dict", cls |-> "dict", items |-> items]

\* the attribute self.server before it is assigned
Unset == [type |-> "unset", cls |-> "", text |-> <<>>]

\* bool(v): no exception class and no job object defines __bool__ or __len__
Truthy(v) ==
    CASE v.type = "NoneType" -> FALSE
      [] v.type = "str" -> v.text # <<>>
      [] v.type = "int" -> v.text # <<"0">>
      [] v.type = "dict" -> v.items # <<>>
      [] OTHER -> TRUE

\* str(v)
str(v) == PyStr(v.text)

Keys(d) == {d.items[i][1] : i \in 1..Len(d.items)}

\* d[key], for a key of d
GetItem(d, key) ==
    d.items[CHOOSE i \in 1..Len(d.items) : d.items[i][1] = key][2]

\* d.get(key)
Get(d, key) == IF key \in Keys(d) THEN GetItem(d, key) ELSE PyNone

\* {**a, **b}
Merge(a, b) ==
    LET fresh(item) == item[1] \notin Keys(a)
        upd == [i \in 1..Len(a.items) |->
                   <<a.items[i][1], Get(IF a.items[i][1] \in Keys(b) THEN b ELSE a,
                                        a.items[i][1])>>]
    IN PyDict(upd \o SelectSeq(b.items, fresh))

\* whether the formatted string s contains the pieces part, in order
Mentions(s, part) ==
    /\ part # <<>>
    /\ \E i \in 0..(Len(s) - Len(part)) :
          \A j \in 1..Len(part) : s[i + j] = part[j]

\* what json.dumps accepts
RECURSIVE Serializable(_)
Serializable(v) ==
    CASE v.type \in {"NoneType", "str", "int"} -> TRUE
      [] v.type = "dict" ->
            \A i \in 1..Len(v.items) : Serializable(v.items[i][2])
      [] OTHER -> FALSE

\* json.dumps(v), for a serializable v, as the pieces of the text
RECURSIVE json_dumps(_)
RECURSIVE dumps_items(_, _)
dumps_items(items, i) ==
    IF i > Len(items) THEN <<>>
    ELSE (IF i > 1 THEN <<", ">> ELSE <<>>)
           \o <<"\"", items[i][1], "\": ">> \o json_dumps(items[i][2])
           \o dumps_items(items, i + 1)

json_dumps(v) ==
    CASE v.type = "NoneType" -> <<"null">>
      [] v.type = "str" -> <<"\"">> \o v.text \o <<"\"">>
      [] v.type = "int" -> v.text
      [] v.type = "dict" -> <<"{">> \o dumps_items(v.items, 1) \o <<"}">>

----------------------------------------------------------------------------
(* The environment: settings, the token, the server's answers *)

Hosts == {PyStr(<<"http://wms:5000">>)}

WorkflowNames == {PyNone, PyStr(<<"my-run">>)}

\* os.getenv("WMS_MONITOR_TOKEN")
Tokens == {PyNone, PyStr(<<>>), PyStr(<<"s3cr3t">>)}

getcwd == PyStr(<<"/work">>)

\* os.path.abspath(path)
abspath(path) ==
    IF path.text # <<>> /\ path.text[1] = "/" THEN path
    ELSE PyStr(getcwd.text \o <<"/">> \o path.text)

linesep == "\n"

\* status codes: success, the four the classifier names, and two others
Codes == {200, 201, 302, 401, 403, 404, 500}

Ids == {PyStr(<<"42">>), PyStr(<<"7">>)}

\* a response body: text that response.json() decodes to an object, or not
JsonBody(items) == [decodes |-> TRUE, obj |-> PyDict(items)]

NotJson == [decodes |-> FALSE, obj |-> PyDict(<<>>)]

Bodies ==
    {NotJson, JsonBody(<<>>)}
      \cup {JsonBody(<< <<"status", s>> >>) :
               s \in {PyStr(<<"running">>), PyStr(<<"paused">>)}}
      \cup {JsonBody(<< <<"id", i>> >>) : i \in Ids}

Responses == [status_code : Codes, body : Bodies]

\* responses to the PUT and the POST, whose bodies the client never reads
BareResponses == [status_code : Codes, body : {JsonBody(<<>>)}]

\* time.asctime()
Times == {PyStr(<<"Mon Nov  2 12:00:00 2026">>)}

\* a log event: its key/value pairs in iteration order
Events ==
    { PyDict(<< <<"level", PyStr(<<"info">>)>>, <<"job", PyJob(<<"rule_a">>)>> >>),
      PyDict(<< <<"exception", PyExc("ValueError", <<"boom">>)>> >>),
      PyDict(<< <<"exception", PyExc("KeyError", <<>>)>>, <<"jobid", PyInt("3")>> >>),
      PyDict(<< <<"reason", PyExc("OSError", <<"disk">>)>> >>) }

----------------------------------------------------------------------------
(* MonitoringProvider._headers *)

_headers ==
    IF Truthy(token)
    THEN PyDict(<< <<"Authorization", PyStr(<<"Bearer ">> \o token.text)>> >>)
    ELSE PyNone

----------------------------------------------------------------------------
(* MonitoringProvider.check_response *)

\* the argument of every sys.exit call
ExitArg == -1

\* the exit status the operating system reports for sys.exit(arg)
ExitStatus(arg) == arg % 256

\* check_response with the sys.exit of the 403 branch left out
check_response_403_falls_through(status_code, endpoint) ==
    LET unrecognized ==
            <<"The ">> \o endpoint
              \o <<" response code ", ToString(status_code), " is not recognized.">>
    IN CASE status_code = 200 ->
              [written |-> <<>>, exit |-> <<>>]
         [] status_code = 404 ->
              [written |-> << <<"The wms ">> \o endpoint \o <<" endpoint was not found">> >>,
               exit |-> <<ExitArg>>]
         [] status_code = 401 ->
              [written |-> << <<"Authorization is required with a ", "WMS_MONITOR_TOKEN",
                               " in the environment">> >>,
               exit |-> <<ExitArg>>]
         [] status_code = 500 ->
              [written |-> << <<"There was a server error when trying to access ">>
                               \o endpoint >>,
               exit |-> <<ExitArg>>]
         [] status_code = 403 ->
              [written |-> << <<"Permission is denied to ">> \o endpoint \o <<".">>,
                              unrecognized >>,
               exit |-> <<>>]
         [] OTHER ->
              [written |-> <<unrecognized>>, exit |-> <<>>]

\* check_response with a sys.exit after the last write
check_response_strict(status_code, endpoint) ==
    LET unrecognized ==
            <<"The ">> \o endpoint
              \o <<" response code ", ToString(status_code), " is not recognized.">>
    IN CASE status_code = 200 ->
              [written |-> <<>>, exit |-> <<>>]
         [] status_code = 404 ->
              [written |-> << <<"The wms ">> \o endpoint \o <<" endpoint was not found">> >>,
               exit |-> <<ExitArg>>]
         [] status_code = 401 ->
              [written |-> << <<"Authorization is required with a ", "WMS_MONITOR_TOKEN",
                               " in the environment">> >>,
               exit |-> <<ExitArg>>]
         [] status_code = 500 ->
              [written |-> << <<"There was a server error when trying to access ">>
                               \o endpoint >>,
               exit |-> <<ExitArg>>]
         [] status_code = 403 ->
              [written |-> << <<"Permission is denied to ">> \o endpoint \o <<".">> >>,
               exit |-> <<ExitArg>>]
         [] OTHER ->
              [written |-> <<unrecognized>>, exit |-> <<ExitArg>>]

\* check_response without the early return on 200
check_response_no_early_return(status_code, endpoint) ==
    LET unrecognized ==
            <<"The ">> \o endpoint
              \o <<" response code ", ToString(status_code), " is not recognized.">>
    IN CASE status_code = 200 ->
              [written |-> <<unrecognized>>, exit |-> <<>>]
         [] status_code = 404 ->
              [written |-> << <<"The wms ">> \o endpoint \o <<" endpoint was not found">> >>,
               exit |-> <<ExitArg>>]
         [] status_code = 401 ->
              [written |-> << <<"Authorization is required with a ", "WMS_MONITOR_TOKEN",
                               " in the environment">> >>,
               exit |-> <<ExitArg>>]
         [] status_code = 500 ->
              [written |-> << <<"There was a server error when trying to access ">>
                               \o endpoint >>,
               exit |-> <<ExitArg>>]
         [] status_code = 403 ->
              [written |-> << <<"Permission is denied to ">> \o endpoint \o <<".">> >>,
               exit |-> <<ExitArg>>]
         [] OTHER ->
              [written |-> <<unrecognized>>, exit |-> <<>>]

\* check_response(response, endpoint): what it writes to sys.stderr, in
\* order, and the arguments of the sys.exit it ends in (none: it returns)
check_response(status_code, endpoint) ==
    LET unrecognized ==
            <<"The ">> \o endpoint
              \o <<" response code ", ToString(status_code), " is not recognized.">>
    IN CASE status_code = 200 ->
              [written |-> <<>>, exit |-> <<>>]
         [] status_code = 404 ->
              [written |-> << <<"The wms ">> \o endpoint \o <<" endpoint was not found">> >>,
               exit |-> <<ExitArg>>]
         [] status_code = 401 ->
              [written |-> << <<"Authorization is required with a ", "WMS_MONITOR_TOKEN",
                               " in the environment">> >>,
               exit |-> <<ExitArg>>]
         [] status_code = 500 ->
              [written |-> << <<"There was a server error when trying to access ">>
                               \o endpoint >>,
               exit |-> <<ExitArg>>]
         [] status_code = 403 ->
              [written |-> << <<"Permission is denied to ">> \o endpoint \o <<".">> >>,
               exit |-> <<ExitArg>>]
         [] OTHER ->
              [written |-> <<unrecognized>>, exit |-> <<>>]

\* the record of one call of check_response
Call(status_code, endpoint) == [status_code |-> status_code, endpoint |-> endpoint]

----------------------------------------------------------------------------
(* The HTTP transport (requests.get, requests.put, requests.post) *)

Request(method, url, headers, params, data) ==
    [method |-> method, url |-> url, headers |-> headers, params |-> params,
     data |-> data]

----------------------------------------------------------------------------
(* How a handler ends, and what it did on the way *)

Returned == [kind |-> "return", arg |-> 0, exc |-> ""]

\* sys.exit(arg)
Exited(arg) == [kind |-> "exit", arg |-> arg, exc |-> ""]

\* an exception nothing catches
Raised(e) == [kind |-> "raise", arg |-> 0, exc |-> e]

\* a handler's run: the requests it issued with their responses, its calls
\* of check_response, what it wrote to sys.stderr, how it ended, and the
\* value of self.server it leaves
Out(reqs, resps, calls, errs, end, srv) ==
    [requests |-> reqs, responses |-> resps, checked |-> calls, stderr |-> errs,
     end |-> end, server |-> srv]

\* how a handler that called check_response goes on
After(c) == IF c.exit # <<>> THEN Exited(c.exit[1]) ELSE Returned

Apply(out, next) ==
    /\ requests' = requests \o out.requests
    /\ responses' = responses \o out.responses
    /\ checked' = checked \o out.checked
    /\ stderr' = stderr \o out.stderr
    /\ server' = out.server
    /\ pc' = CASE out.end.kind = "return" -> next
               [] out.end.kind = "exit" -> "exited"
               [] out.end.kind = "raise" -> "raised"
    /\ exit_status' = IF out.end.kind = "exit" THEN ExitStatus(out.end.arg)
                      ELSE exit_status
    /\ exc' = IF out.end.kind = "raise" THEN out.end.exc ELSE exc

----------------------------------------------------------------------------
(* MonitoringProvider.__post_init__, up to its first call *)

Init ==
    /\ settings \in [host : Hosts, workflow_name : WorkflowNames]
    /\ token \in Tokens
    /\ address = settings.host
    /\ args = PyDict(<<>>)
    /\ metadata = PyDict(<<>>)
    /\ server = Unset
    /\ pc = "service_info"
    /\ exit_status = 0
    /\ exc = ""
    /\ requests = <<>>
    /\ responses = <<>>
    /\ checked = <<>>
    /\ stderr = <<>>
    /\ nlog = 0
    /\ events = <<>>
    /\ parsed = <<>>

----------------------------------------------------------------------------
(* MonitoringProvider.service_info *)

service_info_url == str(address).text \o <<"/api/service-info">>

unreachable_diagnostic ==
    <<"Problem with server: ">> \o str(address).text \o <<" ", linesep>>

not_running_diagnostic ==
    <<"The status of the server ">> \o str(address).text
      \o <<" is not in 'running' mode ", linesep>>

\* service_info with the sys.exit after the first write left out
service_info_no_exit(response) ==
    LET get == Request("GET", service_info_url, _headers, PyNone, PyNone)
        first == IF response.status_code # 200 THEN <<unreachable_diagnostic>>
                 ELSE <<>>
    IN IF ~response.body.decodes
       THEN Out(<<get>>, <<response>>, <<>>, first, Raised("JSONDecodeError"), server)
       ELSE IF Get(response.body.obj, "status") # PyStr(<<"running">>)
       THEN Out(<<get>>, <<response>>, <<>>, first \o <<not_running_diagnostic>>,
                Exited(ExitArg), server)
       ELSE Out(<<get>>, <<response>>, <<>>, first, Returned, server)

\* service_info that looks at the status code alone
service_info_no_status(response) ==
    LET get == Request("GET", service_info_url, _headers, PyNone, PyNone)
    IN IF response.status_code # 200
       THEN Out(<<get>>, <<response>>, <<>>, <<unreachable_diagnostic>>,
                Exited(ExitArg), server)
       ELSE Out(<<get>>, <<response>>, <<>>, <<>>, Returned, server)

service_info(response) ==
    LET get == Request("GET", service_info_url, _headers, PyNone, PyNone)
    IN IF response.status_code # 200
       THEN Out(<<get>>, <<response>>, <<>>, <<unreachable_diagnostic>>,
                Exited(ExitArg), server)
       ELSE IF ~response.body.decodes
       THEN Out(<<get>>, <<response>>, <<>>, <<>>, Raised("JSONDecodeError"), server)
       ELSE IF Get(response.body.obj, "status") # PyStr(<<"running">>)
       THEN Out(<<get>>, <<response>>, <<>>, <<not_running_diagnostic>>,
                Exited(ExitArg), server)
       ELSE Out(<<get>>, <<response>>, <<>>, <<>>, Returned, server)

ServiceInfo ==
    /\ pc = "service_info"
    /\ \E response \in Responses : Apply(service_info(response), "create_workflow")
    /\ UNCHANGED <<settings, token, address, args, metadata, nlog, events, parsed>>

----------------------------------------------------------------------------
(* MonitoringProvider.create_workflow *)

\* the GET of create_workflow sent to the url of service_info
create_workflow_url_of_service_info == str(address).text \o <<"/api/service-info">>

create_workflow_url == str(address).text \o <<"/create_workflow">>

\* the url of the PUT with the id left out
workflow_url_no_id(id) == str(address).text \o <<"/api/workflow/">>

\* the url of the PUT
workflow_url(id) == str(address).text \o <<"/api/workflow/">> \o str(id).text

\* the endpoint named when the PUT's response is checked
workflow_endpoint(id) == <<"/api/workflow/">> \o str(id).text

\* the headers of the PUT without the merge of self._headers
put_headers_content_type_only ==
    PyDict(<< <<"Content-Type", PyStr(<<"application/json">>)>> >>)

\* the headers of the PUT
put_headers ==
    LET content_type == PyDict(<< <<"Content-Type", PyStr(<<"application/json">>)>> >>)
    IN IF _headers.type = "NoneType" THEN content_type
       ELSE Merge(_headers, content_type)

\* the assignment made to a local name: self.server stays as it was
session_not_recorded(id) == server

\* the value assigned to self.server
session(id) == PyDict(<< <<"url", address>>, <<"id", id>> >>)

create_workflow(response, response_put) ==
    LET workdir == IF ~Truthy(Get(metadata, "directory")) THEN getcwd
                   ELSE abspath(GetItem(metadata, "directory"))
        data == PyDict(<< <<"command", Get(metadata, "command")>>,
                          <<"workdir", workdir>> >>)
        get == Request("GET", create_workflow_url, _headers, args, data)
    IN IF ~response.body.decodes
       THEN Out(<<get>>, <<response>>, <<>>, <<>>, Raised("JSONDecodeError"), server)
       ELSE IF "id" \notin Keys(response.body.obj)
       THEN Out(<<get>>, <<response>>, <<>>, <<>>, Raised("KeyError"), server)
       ELSE
         LET id == GetItem(response.body.obj, "id")
             c1 == check_response(response.status_code, <<"/create_workflow">>)
             call1 == Call(response.status_code, <<"/create_workflow">>)
         IN IF c1.exit # <<>>
            THEN Out(<<get>>, <<response>>, <<call1>>, c1.written, After(c1), server)
            ELSE
              LET put == Request("PUT", workflow_url(id), put_headers, PyNone,
                                 PyStr(json_dumps(args)))
                  c2 == check_response(response_put.status_code, workflow_endpoint(id))
                  call2 == Call(response_put.status_code, workflow_endpoint(id))
              IN Out(<<get, put>>, <<response, response_put>>, <<call1, call2>>,
                     c1.written \o c2.written, After(c2),
                     IF c2.exit # <<>> THEN server ELSE session(id))

CreateWorkflow ==
    /\ pc = "create_workflow"
    /\ \E response \in Responses, response_put \in BareResponses :
          Apply(create_workflow(response, response_put), "ready")
    /\ UNCHANGED <<settings, token, address, args, metadata, nlog, events, parsed>>

----------------------------------------------------------------------------
(* MonitoringProvider._parse_message *)

\* the value stored under key for the pair <<key, value>> of msg
parse_value(msg, key, value) ==
    IF key = "job" THEN str(value)
    ELSE IF key = "exception"
    THEN LET e == GetItem(msg, "exception")
         IN PyStr(<<e.cls, ": ">>
                    \o str(IF Truthy(e) THEN e ELSE PyStr(<<"Exception">>)).text)
    ELSE value

\* the dict result built by the loop
parse_result(msg) ==
    PyDict([i \in 1..Len(msg.items) |->
               <<msg.items[i][1], parse_value(msg, msg.items[i][1], msg.items[i][2])>>])

\* the returned text; json.dumps raises TypeError when this is not defined
_parse_message(msg) == PyStr(json_dumps(parse_result(msg)))

----------------------------------------------------------------------------
(* MonitoringProvider.log_handler *)

log_handler_url == GetItem(server, "url").text \o <<"/update_workflow_status">>

server_info(msg, now) ==
    PyDict(<< <<"msg", _parse_message(msg)>>, <<"timestamp", now>>,
              <<"id", GetItem(server, "id")>> >>)

\* log_handler that sends the POST again when the response is not 200
log_handler_retry(msg, now, response) ==
    IF server = Unset
    THEN Out(<<>>, <<>>, <<>>, <<>>, Raised("AttributeError"), server)
    ELSE IF ~Serializable(parse_result(msg))
    THEN Out(<<>>, <<>>, <<>>, <<>>, Raised("TypeError"), server)
    ELSE
      LET post == Request("POST", log_handler_url, _headers, PyNone,
                          server_info(msg, now))
          c == check_response(response.status_code, <<"/update_workflow_status">>)
          call == Call(response.status_code, <<"/update_workflow_status">>)
      IN IF response.status_code = 200
         THEN Out(<<post>>, <<response>>, <<call>>, c.written, After(c), server)
         ELSE Out(<<post, post>>, <<response, response>>, <<call>>, c.written,
                  After(c), server)

log_handler(msg, now, response) ==
    IF server = Unset
    THEN Out(<<>>, <<>>, <<>>, <<>>, Raised("AttributeError"), server)
    ELSE IF ~Serializable(parse_result(msg))
    THEN Out(<<>>, <<>>, <<>>, <<>>, Raised("TypeError"), server)
    ELSE
      LET post == Request("POST", log_handler_url, _headers, PyNone,
                          server_info(msg, now))
          c == check_response(response.status_code, <<"/update_workflow_status">>)
          call == Call(response.status_code, <<"/update_workflow_status">>)
      IN Out(<<post>>, <<response>>, <<call>>, c.written, After(c), server)

\* the host engine hands one log event to the handler
LogHandler ==
    /\ pc = "ready"
    /\ nlog < MaxEvents
    /\ \E msg \in Events, now \in Times, response \in BareResponses :
          LET out == log_handler(msg, now, response)
          IN /\ Apply(out, "ready")
             \* _parse_message is reached once self.server was read, and what
             \* it returns is the msg field of the POST
             /\ events' = IF server = Unset THEN events ELSE Append(events, msg)
             /\ parsed' = parsed \o [i \in 1..Len(out.requests) |->
                                        GetItem(out.requests[i].data, "msg")]
    /\ nlog' = nlog + 1
    /\ UNCHANGED <<settings, token, address, args, metadata>>

----------------------------------------------------------------------------
(* The process *)

Next == ServiceInfo \/ CreateWorkflow \/ LogHandler

Spec == Init /\ [][Next]_vars

----------------------------------------------------------------------------
(* check_response on its own: one call, any status code, any endpoint *)

Endpoints ==
    {<<"wms monitor request">>, <<"/create_workflow">>, <<"/update_workflow_status">>}
      \cup {workflow_endpoint(i) : i \in Ids}

InitCheckResponse ==
    /\ settings \in [host : Hosts, workflow_name : WorkflowNames]
    /\ token \in Tokens
    /\ address = settings.host
    /\ args = PyDict(<<>>)
    /\ metadata = PyDict(<<>>)
    /\ server = Unset
    /\ pc = "check_response"
    /\ exit_status = 0
    /\ exc = ""
    /\ requests = <<>>
    /\ responses = <<>>
    /\ checked = <<>>
    /\ stderr = <<>>
    /\ nlog = 0
    /\ events = <<>>
    /\ parsed = <<>>

CheckResponse ==
    /\ pc = "check_response"
    /\ \E status_code \in Codes, endpoint \in Endpoints :
          LET c == check_response(status_code, endpoint)
          IN Apply(Out(<<>>, <<>>, <<Call(status_code, endpoint)>>, c.written,
                       After(c), server), "returned")
    /\ UNCHANGED <<settings, token, address, args, metadata, nlog, events, parsed>>

NextCheckResponse == CheckResponse

SpecCheckResponse == InitCheckResponse /\ [][NextCheckResponse]_vars

----------------------------------------------------------------------------
(* _parse_message on its own: one call, any log event of up to MaxKeys pairs *)

Pairs ==
    { <<"job", PyJob(<<"rule_a">>)>>, <<"job", PyJob(<<"all">>)>>,
      <<"exception", PyExc("ValueError", <<"boom">>)>>,
      <<"exception", PyExc("KeyError", <<>>)>>,
      <<"level", PyStr(<<"info">>)>>, <<"level", PyStr(<<>>)>>,
      <<"jobid", PyInt("3")>>, <<"jobid", PyNone>> }

\* the log events whose values outside job and exception json.dumps accepts
ParseEvents ==
    { PyDict(items) : items \in
        { f \in UNION {[1..n -> Pairs] : n \in 0..MaxKeys} :
            \A i, j \in DOMAIN f : i # j => f[i][1] # f[j][1] } }

InitParseMessage ==
    /\ settings \in [host : Hosts, workflow_name : WorkflowNames]
    /\ token \in Tokens
    /\ address = settings.host
    /\ args = PyDict(<<>>)
    /\ metadata = PyDict(<<>>)
    /\ server = Unset
    /\ pc = "parse_message"
    /\ exit_status = 0
    /\ exc = ""
    /\ requests = <<>>
    /\ responses = <<>>
    /\ checked = <<>>
    /\ stderr = <<>>
    /\ nlog = 0
    /\ events = <<>>
    /\ parsed = <<>>

ParseMessage ==
    /\ pc = "parse_message"
    /\ \E msg \in ParseEvents :
          /\ events' = Append(events, msg)
          /\ parsed' = Append(parsed, _parse_message(msg))
    /\ pc' = "returned"
    /\ UNCHANGED <<settings, token, address, args, metadata, server, exit_status,
                   exc, requests, responses, checked, stderr, nlog>>

NextParseMessage == ParseMessage

SpecParseMessage == InitParseMessage /\ [][NextParseMessage]_vars

----------------------------------------------------------------------------
(* Vocabulary of the properties *)

FatalCodes == {404, 401, 403, 500}

KnownCodes == {200} \cup FatalCodes

Terminated == pc \in {"exited", "raised"}

unrecognized_diagnostic(call) ==
    <<"The ">> \o call.endpoint
      \o <<" response code ", ToString(call.status_code), " is not recognized.">>

token_diagnostic ==
    <<"Authorization is required with a ", "WMS_MONITOR_TOKEN", " in the environment">>

\* the positions in the request log of the requests of one kind
ServiceInfoGets ==
    {i \in 1..Len(requests) :
        requests[i].method = "GET" /\ requests[i].url = service_info_url}

CreateGets ==
    {i \in 1..Len(requests) :
        requests[i].method = "GET" /\ requests[i].url = create_workflow_url}

Puts == {i \in 1..Len(requests) : requests[i].method = "PUT"}

Posts == {i \in 1..Len(requests) : requests[i].method = "POST"}

LastWritten == stderr[Len(stderr)]

\* json.loads of a text json.dumps made of a dict of strings, ints and None:
\* a string is the pieces between two quote pieces, null is None, anything
\* else is an int
loads_value(text, q) ==
    IF text[q] = "\""
    THEN LET close == CHOOSE j \in (q + 1)..Len(text) :
                         /\ text[j] = "\""
                         /\ \A k \in (q + 1)..(j - 1) : text[k] # "\""
         IN [value |-> PyStr(SubSeq(text, q + 1, close - 1)), next |-> close + 1]
    ELSE IF text[q] = "null" THEN [value |-> PyNone, next |-> q + 1]
    ELSE [value |-> PyInt(text[q]), next |-> q + 1]

RECURSIVE loads_items(_, _)
loads_items(text, p) ==
    IF text[p] = "}" THEN <<>>
    ELSE LET start == IF text[p] = ", " THEN p + 1 ELSE p
             v == loads_value(text, start + 3)
         IN << <<text[start + 1], v.value>> >> \o loads_items(text, v.next)

json_loads(s) == PyDict(loads_items(s.text, 2))

\* the exception rule: "<kind>: <message>", "Exception" for an empty message
ExceptionRule(e) ==
    PyStr(<<e.cls, ": ">> \o (IF e.text = <<>> THEN <<"Exception">> ELSE e.text))

----------------------------------------------------------------------------
(* C1 *)

\* C1 as stated: a call of check_response with 404, 401, 403 or 500 ends the
\* process with a non-zero exit status after writing a diagnostic that
\* mentions the endpoint it was given.
C1_FatalDiagnosticNamesEndpoint ==
    \A i \in 1..Len(checked) :
        checked[i].status_code \in FatalCodes =>
            /\ pc = "exited"
            /\ exit_status # 0
            /\ Len(stderr) = 1
            /\ Mentions(stderr[1], checked[i].endpoint)

\* C1 amended: a call of check_response with 404, 401, 403 or 500 ends the
\* process with a non-zero exit status after writing one diagnostic; for 404,
\* 403 and 500 it mentions the endpoint, for 401 it is the fixed text naming
\* WMS_MONITOR_TOKEN, which does not mention the endpoint.
C1_FatalExitsWithDiagnostic ==
    \A i \in 1..Len(checked) :
        checked[i].status_code \in FatalCodes =>
            /\ pc = "exited"
            /\ exit_status # 0
            /\ Len(stderr) = 1
            /\ checked[i].status_code # 401 =>
                  Mentions(stderr[1], checked[i].endpoint)
            /\ checked[i].status_code = 401 =>
                  /\ stderr[1] = token_diagnostic
                  /\ ~Mentions(stderr[1], checked[i].endpoint)

C1_Witness ==
    /\ pc = "exited"
    /\ checked = <<Call(403, <<"wms monitor request">>)>>
    /\ stderr = << <<"Permission is denied to ", "wms monitor request", ".">> >>

----------------------------------------------------------------------------
(* C2 *)

\* C2 as stated: once the create_workflow GET was answered with a status
\* other than 200 the process has terminated, no PUT was issued and no
\* session is recorded.
C2_NonSuccessCreateIsFatal ==
    \A i \in CreateGets :
        responses[i].status_code # 200 =>
            /\ Terminated
            /\ Puts = {}
            /\ server = Unset

----------------------------------------------------------------------------
(* C3 *)

\* C3 as stated: once the PUT was answered with a status other than 200 the
\* process has terminated, no session is recorded and no log event is
\* reported; a recorded session means the PUT was answered 200.
C3_FailedPutIsFatal ==
    \A i \in Puts :
        /\ responses[i].status_code # 200 =>
              /\ Terminated
              /\ server = Unset
              /\ Posts = {}
        /\ server # Unset => responses[i].status_code = 200

----------------------------------------------------------------------------
(* C4 *)

----------------------------------------------------------------------------
(* C5 *)

\* C5: log_handler runs, and a POST to /update_workflow_status is in the
\* request log, only when the session is recorded; the PUT of create_workflow
\* precedes every POST and every POST carries the session's url and id.
C5_NoLogBeforeSession ==
    /\ nlog > 0 => server # Unset
    /\ \A i \in Posts :
          /\ server # Unset
          /\ \E j \in Puts : j < i
          /\ requests[i].url = GetItem(server, "url").text \o <<"/update_workflow_status">>
          /\ GetItem(requests[i].data, "id") = GetItem(server, "id")

C5_Witness ==
    /\ Posts # {}
    /\ nlog = 1
    /\ pc = "ready"

----------------------------------------------------------------------------
(* C6 *)

\* C6: once the service-info GET was answered with a status other than 200
\* the process has exited with a non-zero status, the one diagnostic written
\* names the server address, and the service-info GET is the only request
\* ever issued.
C6_UnreachableIsFatal ==
    \A i \in ServiceInfoGets :
        responses[i].status_code # 200 =>
            /\ pc = "exited"
            /\ exit_status # 0
            /\ Len(stderr) = 1
            /\ Mentions(stderr[1], str(address).text)
            /\ Len(requests) = 1

C6_Witness ==
    /\ pc = "exited"
    /\ Len(responses) = 1
    /\ responses[1].status_code = 500
    /\ stderr = <<unreachable_diagnostic>>

----------------------------------------------------------------------------
(* C7 *)

\* the service-info GET was answered 200 with a JSON object whose status
\* field is not "running" (absent included)
NotRunning(i) ==
    /\ responses[i].status_code = 200
    /\ responses[i].body.decodes
    /\ Get(responses[i].body.obj, "status") # PyStr(<<"running">>)

\* C7 as stated: the process then exits non-zero with a diagnostic other than
\* the unreachable one that names the address and the state the server
\* reported, and no create_workflow request is made.
C7_NotRunningNamesReportedState ==
    \A i \in ServiceInfoGets :
        NotRunning(i) =>
            /\ pc = "exited"
            /\ exit_status # 0
            /\ Len(stderr) = 1
            /\ stderr[1] # unreachable_diagnostic
            /\ Mentions(stderr[1], str(address).text)
            /\ Mentions(stderr[1], str(Get(responses[i].body.obj, "status")).text)
            /\ Len(requests) = 1

\* C7 amended: the process then exits non-zero with a diagnostic other than
\* the unreachable one that names the address and says the server is not in
\* 'running' mode, without the state the server reported, and no
\* create_workflow request is made.
C7_NotRunningIsFatal ==
    \A i \in ServiceInfoGets :
        NotRunning(i) =>
            /\ pc = "exited"
            /\ exit_status # 0
            /\ Len(stderr) = 1
            /\ stderr[1] # unreachable_diagnostic
            /\ Mentions(stderr[1], str(address).text)
            /\ Mentions(stderr[1], <<" is not in 'running' mode ">>)
            /\ ~Mentions(stderr[1], str(Get(responses[i].body.obj, "status")).text)
            /\ Len(requests) = 1

C7_Witness ==
    /\ pc = "exited"
    /\ Len(responses) = 1
    /\ responses[1].status_code = 200
    /\ Get(responses[1].body.obj, "status") = PyStr(<<"paused">>)
    /\ stderr = <<not_running_diagnostic>>

----------------------------------------------------------------------------
(* C8 *)

\* C8 as stated: once the create_workflow GET was answered with a JSON object
\* that has no id field, the response has been classified by check_response,
\* a diagnostic is written and the process has exited; no PUT was issued and
\* no session is recorded.
C8_MissingIdIsClassified ==
    \A i \in CreateGets :
        (responses[i].body.decodes /\ "id" \notin Keys(responses[i].body.obj)) =>
            /\ pc = "exited"
            /\ exit_status # 0
            /\ \E j \in 1..Len(checked) : checked[j].endpoint = <<"/create_workflow">>
            /\ stderr # <<>>
            /\ Puts = {}
            /\ server = Unset

----------------------------------------------------------------------------
(* C9 *)

\* C9: a recorded session holds the server address and the id the
\* create_workflow response returned, the one PUT went to
\* /api/workflow/<that id>, and every POST carries that id and the session's
\* url, however many log events were handled.
C9_WorkflowIdFixed ==
    server # Unset =>
        \E g \in CreateGets :
            LET id == GetItem(responses[g].body.obj, "id")
            IN /\ CreateGets = {g}
               /\ server = PyDict(<< <<"url", address>>, <<"id", id>> >>)
               /\ \E p \in Puts :
                     /\ Puts = {p}
                     /\ requests[p].url =
                           str(address).text \o <<"/api/workflow/">> \o str(id).text
               /\ \A i \in Posts :
                     /\ GetItem(requests[i].data, "id") = id
                     /\ requests[i].url =
                           str(address).text \o <<"/update_workflow_status">>

\* the session of id 42 after two log events
C9_Witness ==
    /\ server # Unset
    /\ GetItem(server, "id") = PyStr(<<"42">>)
    /\ Cardinality(Posts) = 2
    /\ \A i \in Posts : GetItem(requests[i].data, "id") = PyStr(<<"42">>)

----------------------------------------------------------------------------
(* C10 *)

\* C10 as stated: once a POST to /update_workflow_status was answered with a
\* status other than 200 the process has exited non-zero after a diagnostic
\* and no later request was issued; the diagnostic names
\* /update_workflow_status, or for 401 is the one that tells to set the token.
C10_FailedPostIsFatal ==
    \A i \in Posts :
        responses[i].status_code # 200 =>
            /\ pc = "exited"
            /\ exit_status # 0
            /\ i = Len(requests)
            /\ stderr # <<>>
            /\ IF responses[i].status_code = 401
               THEN LastWritten = token_diagnostic
               ELSE Mentions(LastWritten, <<"/update_workflow_status">>)

----------------------------------------------------------------------------
(* C11 *)

\* C11: a call of check_response with status 200 returns to its caller and
\* has no effect: nothing is written to sys.stderr, the process neither exits
\* nor raises, and the token, the address, the session and the rest of the
\* provider's state are as before the call.
C11_SuccessHasNoEffect ==
    [][(Len(checked') = Len(checked) + 1 /\ checked'[Len(checked')].status_code = 200) =>
          /\ stderr' = stderr
          /\ pc' = "returned"
          /\ UNCHANGED <<settings, token, address, args, metadata, server,
                         exit_status, exc, requests, responses>>]_vars

C11_Witness ==
    /\ pc = "returned"
    /\ checked = <<Call(200, <<"/update_workflow_status">>)>>
    /\ stderr = <<>>
    /\ exit_status = 0

----------------------------------------------------------------------------
(* C12 *)

\* C12: the request log is at every moment a prefix of GET /api/service-info,
\* GET /create_workflow, PUT /api/workflow/<id>, then POSTs to
\* /update_workflow_status: the first three appear once each, in this order.
C12_RequestOrder ==
    \A i \in 1..Len(requests) :
        CASE i = 1 ->
               /\ requests[i].method = "GET"
               /\ requests[i].url = str(address).text \o <<"/api/service-info">>
          [] i = 2 ->
               /\ requests[i].method = "GET"
               /\ requests[i].url = str(address).text \o <<"/create_workflow">>
          [] i = 3 ->
               /\ requests[i].method = "PUT"
               /\ \E id \in Ids :
                     requests[i].url = str(address).text \o <<"/api/workflow/">> \o id.text
          [] OTHER ->
               /\ requests[i].method = "POST"
               /\ requests[i].url = str(address).text \o <<"/update_workflow_status">>

\* the whole sequence: the three start-up requests and two POSTs
C12_Witness ==
    /\ Len(requests) = 5
    /\ requests[3].method = "PUT"
    /\ requests[5].method = "POST"

----------------------------------------------------------------------------
(* C13 *)

\* C13: as long as no log event held a value json.dumps rejects, the number
\* of POSTs to /update_workflow_status equals the number of log_handler
\* invocations, whatever the responses were: one POST per log event, none
\* repeated, and one response per request.
C13_OnePostPerEvent ==
    /\ Len(responses) = Len(requests)
    /\ exc # "TypeError" => Cardinality(Posts) = nlog

\* two log events, the first answered 302, and two POSTs
C13_Witness ==
    /\ nlog = 2
    /\ Cardinality(Posts) = 2
    /\ \E i \in Posts : responses[i].status_code = 302

----------------------------------------------------------------------------
(* C14 *)

\* a token is configured: WMS_MONITOR_TOKEN is set to a non-empty value
TokenConfigured == token.type = "str" /\ token.text # <<>>

HasAuthorization(r) ==
    /\ r.headers.type = "dict"
    /\ "Authorization" \in Keys(r.headers)

\* C14: every request in the log (service-info GET, create_workflow GET, PUT,
\* POST) carries Authorization: Bearer <token> when a token is configured and
\* no Authorization header otherwise; the PUT carries Content-Type:
\* application/json in both cases.
C14_UniformAuthentication ==
    \A i \in 1..Len(requests) :
        /\ HasAuthorization(requests[i]) <=> TokenConfigured
        /\ TokenConfigured =>
              GetItem(requests[i].headers, "Authorization")
                 = PyStr(<<"Bearer ">> \o token.text)
        /\ requests[i].method = "PUT" =>
              /\ requests[i].headers.type = "dict"
              /\ Get(requests[i].headers, "Content-Type") = PyStr(<<"application/json">>)

\* all four kinds of request were sent with the token
C14_Witness ==
    /\ TokenConfigured
    /\ Len(requests) = 4
    /\ requests[4].method = "POST"
    /\ \A i \in 1..4 : HasAuthorization(requests[i])

----------------------------------------------------------------------------
(* C15 *)

\* C15 as stated: for an event with an exception E under the key exception,
\* the value under that key in the decoded result of _parse_message is
\* "<kind(E)>: <message(E)>", and "<kind(E)>: Exception" when E's message is
\* empty.
C15_ExceptionNormalized ==
    \A k \in 1..Len(parsed) :
        "exception" \in Keys(events[k]) =>
            Get(json_loads(parsed[k]), "exception")
               = ExceptionRule(GetItem(events[k], "exception"))

----------------------------------------------------------------------------
(* C16 *)

\* C16 as stated: decoding what _parse_message returned gives a mapping with
\* the keys of the event, in which the job value is the string form of the
\* job handle, the exception value follows the exception rule, and every
\* other value is the event's.
C16_RoundTrip ==
    \A k \in 1..Len(parsed) :
        LET msg == events[k]
            back == json_loads(parsed[k])
        IN /\ Len(back.items) = Len(msg.items)
           /\ \A i \in 1..Len(msg.items) :
                 LET key == msg.items[i][1]
                     value == msg.items[i][2]
                 IN /\ back.items[i][1] = key
                    /\ back.items[i][2] =
                          CASE key = "job" -> PyStr(value.text)
                            [] key = "exception" -> ExceptionRule(value)
                            [] OTHER -> value

----------------------------------------------------------------------------
(* C17 *)

\* C17 as stated: once the create_workflow GET was answered 404, 401, 403 or
\* 500, whatever the body, the response has been classified for
\* /create_workflow, its diagnostic is written and the process has exited
\* non-zero.
C17_StatusClassifiedWhateverTheBody ==
    \A g \in CreateGets :
        responses[g].status_code \in FatalCodes =>
            /\ pc = "exited"
            /\ exit_status # 0
            /\ checked = <<Call(responses[g].status_code, <<"/create_workflow">>)>>
            /\ Len(stderr) = 1

----------------------------------------------------------------------------
(* C18 *)

\* how the diagnostic of each non-success case begins
Opening(status_code) ==
    CASE status_code = 404 -> "The wms "
      [] status_code = 401 -> "Authorization is required with a "
      [] status_code = 500 -> "There was a server error when trying to access "
      [] status_code = 403 -> "Permission is denied to "
      [] OTHER -> "The "

\* C18: a call of check_response with a status other than 200 writes exactly
\* one diagnostic; it is the "not recognized" text exactly for the codes
\* outside {200, 404, 401, 403, 500}, and the texts of 404, 401, 500, 403 and
\* of the other codes begin differently from one another.
C18_OneDistinctDiagnostic ==
    /\ \A c1, c2 \in FatalCodes : c1 # c2 =>
          /\ Opening(c1) # Opening(c2)
          /\ Opening(c1) # Opening(201)
    /\ \A i \in 1..Len(checked) :
          checked[i].status_code # 200 =>
              /\ Len(stderr) = 1
              /\ stderr[1][1] = Opening(checked[i].status_code)
              /\ stderr[1] = unrecognized_diagnostic(checked[i])
                    <=> checked[i].status_code \notin KnownCodes

C18_Witness ==
    /\ checked = <<Call(500, <<"/create_workflow">>)>>
    /\ stderr = << <<"There was a server error when trying to access ",
                     "/create_workflow">> >>
    /\ pc = "exited"

----------------------------------------------------------------------------
(* C19 *)

\* C19 as stated: with a workflow_name in the settings, the body of the PUT
\* contains that name and so do the query parameters of the create_workflow
\* GET.
C19_WorkflowNameSent ==
    settings.workflow_name # PyNone =>
        /\ \A p \in Puts :
              Mentions(requests[p].data.text, settings.workflow_name.text)
        /\ \A g \in CreateGets :
              \E i \in 1..Len(requests[g].params.items) :
                  requests[g].params.items[i][2] = settings.workflow_name

====
